---- MODULE Spec2Model ----
(***************************************************************************)
(* Model of the SPC outlook tool (src/spc_outlook_tool.py): one run of     *)
(* main(), from argument validation through the geometry-variant fetch     *)
(* loop, the cycle/hazard partitioner and the three exporters.             *)
(*                                                                         *)
(* Text that the program parses (the date, the cycle selector, the         *)
(* CATEGORY field) is a sequence of one-character strings, so that         *)
(* parsing, lower-casing, replace() and substring tests are computed.      *)
(* Hazard and format tokens are strings; None is the empty sequence        *)
(* (the program only ever tests these values for truthiness).              *)
(***************************************************************************)
EXTENDS Integers, Sequences, FiniteSets, TLC

(***************************************************************************)
(* Bounds of the model.                                                    *)
(***************************************************************************)
\* largest number of rows in an enumerated feature table
MaxRows == 2

(***************************************************************************)
(* Text helpers.                                                           *)
(***************************************************************************)
RECURSIVE Join(_)
\* a character sequence as a string
Join(s) == IF s = <<>> THEN "" ELSE Head(s) \o Join(Tail(s))

UpperAlphabet == <<"A","B","C","D","E","F","G","H","I","J","K","L","M",
                   "N","O","P","Q","R","S","T","U","V","W","X","Y","Z">>
LowerAlphabet == <<"a","b","c","d","e","f","g","h","i","j","k","l","m",
                   "n","o","p","q","r","s","t","u","v","w","x","y","z">>

\* str.lower() on one character
LowerChar(c) ==
    IF \E i \in 1..26 : UpperAlphabet[i] = c
    THEN LowerAlphabet[CHOOSE i \in 1..26 : UpperAlphabet[i] = c]
    ELSE c

\* str.lower()
Lower(s) == [i \in 1..Len(s) |-> LowerChar(s[i])]

\* str.upper() on one character
UpperChar(c) ==
    IF \E i \in 1..26 : LowerAlphabet[i] = c
    THEN UpperAlphabet[CHOOSE i \in 1..26 : LowerAlphabet[i] = c]
    ELSE c

\* str.upper()
Upper(s) == [i \in 1..Len(s) |-> UpperChar(s[i])]

\* str.replace(ch, '')
Replace(s, ch) == SelectSeq(s, LAMBDA c : c # ch)

Digits == <<"0","1","2","3","4","5","6","7","8","9">>
IsDigit(c) == \E i \in 1..10 : Digits[i] = c
DigitVal(c) == (CHOOSE i \in 1..10 : Digits[i] = c) - 1
AllDigits(s) == s # <<>> /\ \A i \in 1..Len(s) : IsDigit(s[i])

RECURSIVE DigitsVal(_, _)
DigitsVal(s, acc) ==
    IF s = <<>> THEN acc ELSE DigitsVal(Tail(s), 10 * acc + DigitVal(Head(s)))

\* int(s): an optional sign followed by decimal digits; anything else raises
\* ValueError (ok = FALSE)
PyInt(s) ==
    IF s # <<>> /\ Head(s) \in {"-", "+"}
    THEN IF AllDigits(Tail(s))
         THEN [ok |-> TRUE,
               val |-> IF Head(s) = "-" THEN 0 - DigitsVal(Tail(s), 0)
                                        ELSE DigitsVal(Tail(s), 0)]
         ELSE [ok |-> FALSE, val |-> 0]
    ELSE IF AllDigits(s) THEN [ok |-> TRUE, val |-> DigitsVal(s, 0)]
         ELSE [ok |-> FALSE, val |-> 0]

\* f'{n:02d}': zero-padded to width two, the sign counting towards the width
Fmt02d(n) == IF n >= 0 /\ n < 10 THEN "0" \o ToString(n) ELSE ToString(n)

RECURSIVE Split(_, _, _)
\* str.split(sep) of a character sequence, cur being the field being read
Split(s, sep, cur) ==
    IF s = <<>> THEN <<cur>>
    ELSE IF Head(s) = sep THEN <<cur>> \o Split(Tail(s), sep, <<>>)
    ELSE Split(Tail(s), sep, Append(cur, Head(s)))

\* s contains sub as a contiguous substring (pandas str.contains of a literal)
Contains(s, sub) ==
    \E i \in 1..(Len(s) - Len(sub) + 1) : SubSeq(s, i, i + Len(sub) - 1) = sub

IsLeap(y) == (y % 4 = 0 /\ y % 100 # 0) \/ y % 400 = 0
DaysInMonth(y, m) ==
    IF m = 2 THEN (IF IsLeap(y) THEN 29 ELSE 28)
    ELSE IF m \in {4, 6, 9, 11} THEN 30 ELSE 31

\* datetime.strptime(s, '%Y-%m-%d') does not raise ValueError
StrptimeOk(s) ==
    LET p == Split(s, "-", <<>>) IN
    /\ Len(p) = 3
    /\ Len(p[1]) = 4 /\ AllDigits(p[1])
    /\ Len(p[2]) \in {1, 2} /\ AllDigits(p[2])
    /\ Len(p[3]) \in {1, 2} /\ AllDigits(p[3])
    /\ LET y == DigitsVal(p[1], 0)
           m == DigitsVal(p[2], 0)
           d == DigitsVal(p[3], 0)
       IN /\ y >= 1
          /\ m \in 1..12
          /\ d >= 1 /\ d <= DaysInMonth(y, m)

\* h.strip().lower() on the hazard and format tokens of the command line
StripLower(t) ==
    CASE t = "TORNADO" -> "tornado"
      [] t = " wind"   -> "wind"
      [] t = "Fire"    -> "fire"
      [] t = "SHP"     -> "shp"
      [] t = " png"    -> "png"
      [] OTHER         -> t

\* the elements of a sequence
Range(s) == {s[i] : i \in 1..Len(s)}


(***************************************************************************)
(* Program constants.                                                      *)
(***************************************************************************)
\* None / an absent option / an absent dictionary key
None == <<>>

\* the variant list with the first two entries exchanged
GeomVariants_Reordered == <<"lyr", "", "nolyr">>

\* for geom in [None, 'lyr', 'nolyr'], None written ""
GeomVariants == <<"", "lyr", "nolyr">>

ValidHazardsFire == {"fire", "dryt"}
ValidHazardsConvective == {"categorical", "tornado", "wind", "hail", "tstm"}
\* one allow-list for both outlook types
ValidHazards_AnyType(type) == ValidHazardsFire \cup ValidHazardsConvective

\* valid_hazards of main for the chosen --type
ValidHazards(type) ==
    IF type = "fire" THEN ValidHazardsFire ELSE ValidHazardsConvective

ValidFormats == {"shp", "geojson", "png", "html"}
ValidCycles == {1, 6, 13, 1630, 20}

LATEST == <<"l","a","t","e","s","t">>
CYCLE_1630Z == <<"1","6","3","0","z">>

\* the hazard list an exporter falls back to when none was requested, as
\* computed from the outlook_type argument it was called with
DefaultHazards(outlook_type) ==
    IF outlook_type = "fire" THEN <<"fire", "dryt">>
    ELSE <<"categorical", "tornado", "wind", "hail">>

\* str.title() of the --type choices
Title(type) ==
    CASE type = "fire"       -> "Fire"
      [] type = "convective" -> "Convective"
      [] OTHER               -> type

(***************************************************************************)
(* CATEGORY and THRESHOLD values of the feature table.                     *)
(***************************************************************************)
CATEGORICAL == <<"C","A","T","E","G","O","R","I","C","A","L">>
TORNADO == <<"T","O","R","N","A","D","O">>
WIND == <<"W","I","N","D">>
HAIL == <<"H","A","I","L">>
FIRE == <<"F","I","R","E">>
DRY == <<"D","R","Y">>
DRYT == <<"D","R","Y","T">>
TSTM == <<"T","S","T","M">>
SLGT == <<"S","L","G","T">>
ELEV == <<"E","L","E","V">>
P005 == <<"0",".","0","5">>
MRGL == <<"M","R","G","L">>
ENH == <<"E","N","H">>
MDT == <<"M","D","T">>
HIGH == <<"H","I","G","H">>
P002 == <<"0",".","0","2">>
P010 == <<"0",".","1","0">>
P015 == <<"0",".","1","5">>
P030 == <<"0",".","3","0">>
P045 == <<"0",".","4","5">>
P060 == <<"0",".","6","0">>
SIGN == <<"S","I","G","N">>

\* the keys of COLORS[hazard] for the four convective hazards
ColorKeys(hazard) ==
    CASE hazard = "categorical" -> {TSTM, MRGL, SLGT, ENH, MDT, HIGH}
      [] hazard = "tornado" ->
             {P002, P005, P010, P015, P030, P045, P060, SIGN}
      [] hazard = "wind" -> {P005, P015, P030, P045, P060, SIGN}
      [] hazard = "hail" -> {P005, P015, P030, P045, P060, SIGN}

\* cat_order of create_html_map_selective
CatOrder == <<TSTM, MRGL, SLGT, ENH, MDT, HIGH>>

(***************************************************************************)
(* Ordering of threshold values.                                           *)
(***************************************************************************)
\* the characters of the threshold values in code-point order
CodePoints == <<".","0","1","2","3","4","5","6","7","8","9",
                "A","B","C","D","E","F","G","H","I","J","K","L","M",
                "N","O","P","Q","R","S","T","U","V","W","X","Y","Z">>
Ord(c) == CHOOSE i \in 1..Len(CodePoints) : CodePoints[i] = c

RECURSIVE StrLess(_, _)
\* a < b for two str values: lexicographic by code point
StrLess(a, b) ==
    IF b = <<>> THEN FALSE
    ELSE IF a = <<>> THEN TRUE
    ELSE IF Head(a) # Head(b) THEN Ord(Head(a)) < Ord(Head(b))
    ELSE StrLess(Tail(a), Tail(b))

RECURSIVE SortedStr(_)
\* sorted(S) for a set of str values
SortedStr(S) ==
    IF S = {} THEN <<>>
    ELSE LET m == CHOOSE x \in S : \A y \in S \ {x} : StrLess(x, y)
         IN <<m>> \o SortedStr(S \ {m})

\* float(x) in hundredths, for a value written digits[.digits] with at most
\* two decimals; ok = FALSE when float() raises ValueError
PyFloat(x) ==
    LET p == Split(x, ".", <<>>) IN
    IF Len(p) = 1 /\ AllDigits(p[1])
    THEN [ok |-> TRUE, val |-> 100 * DigitsVal(p[1], 0)]
    ELSE IF Len(p) = 2 /\ AllDigits(p[1]) /\ AllDigits(p[2]) /\ Len(p[2]) <= 2
    THEN [ok |-> TRUE,
          val |-> 100 * DigitsVal(p[1], 0)
                    + (IF Len(p[2]) = 1 THEN 10 ELSE 1) * DigitsVal(p[2], 0)]
    ELSE [ok |-> FALSE, val |-> 0]

\* safe_float returning 0.0 for a value that is not a number
SafeFloat_Zero(x) == IF PyFloat(x).ok THEN PyFloat(x).val ELSE 0

\* safe_float of create_html_map_selective, in hundredths: 999.0 for a value
\* that is not a number
SafeFloat(x) == IF PyFloat(x).ok THEN PyFloat(x).val ELSE 99900

\* the sort key of a row that pandas orders last (NaN)
NaNKey == 1000000

\* hazard_data['sort_order'] of create_html_map_selective, in hundredths for
\* the numeric branch
SortOrder(category, thr) ==
    IF category = CATEGORICAL
    THEN IF \E i \in 1..Len(CatOrder) : CatOrder[i] = thr
         THEN (CHOOSE i \in 1..Len(CatOrder) : CatOrder[i] = thr) - 1
         ELSE NaNKey
    ELSE SafeFloat(thr)

RECURSIVE SortValues(_, _)
\* the row orders sort_values('sort_order') can give: ascending by key, rows
\* with equal keys in any order
SortValues(rows, key) ==
    IF rows = {} THEN {<<>>}
    ELSE UNION {{<<m>> \o t : t \in SortValues(rows \ {m}, key)} :
                   m \in {x \in rows : \A y \in rows : key[x] <= key[y]}}

(***************************************************************************)
(* Inputs of one run: the command line and the upstream service.           *)
(***************************************************************************)
DATE_OK == <<"2","0","2","5","-","0","3","-","1","4">>
DateArgs == {DATE_OK, <<"2","0","2","4","-","0","2","-","2","9">>, <<"2","0","2","5","-","0","2","-","2","9">>, <<"2","0","2","5","-","1","3","-","0","1">>,
             <<"1","4","/","0","3","/","2","0","2","5">>, <<"2","0","2","5","-","3","-","4">>, <<"0","0","0","0","-","0","1","-","0","1">>}

Types == {"convective", "fire"}

\* --hazard after split(','): None or a list of raw tokens
HazardArgs == {None, <<"categorical">>, <<"tornado">>, <<"wind">>, <<"hail">>,
               <<"tstm">>, <<"fire">>, <<"dryt">>, <<"bogus">>, <<"hail", "">>,
               <<"TORNADO", " wind">>, <<"tornado", "bogus">>,
               <<"Fire", "dryt">>}

\* --format after split(','): None or a list of raw tokens
FormatArgs == {None, <<"shp">>, <<"geojson">>, <<"png">>, <<"html">>,
               <<"pdf">>, <<"SHP", " png">>, <<"shp", "kml">>,
               <<"geojson", "html">>}

\* --cycle: None or the raw token
CycleArgs == {None, LATEST, <<"L","A","T","E","S","T">>, <<"a","l","l">>, <<"0","1","z">>, <<"0","6","z">>, <<"1","3","z">>, <<"1","6","z">>,
              <<"1","6","Z">>, CYCLE_1630Z, <<"2","0","z">>, <<"6">>, <<"9","9","z">>, <<"-","1","z">>, <<"z">>, <<"1",".","5","z">>}

\* one feature of the combined table; geometry is "valid", "invalid"
\* (is_valid is false) or "buffered" (the result of buffer(0), which is valid)
Row(c, cat, thr) ==
    [CYCLE |-> c, CATEGORY |-> cat, THRESHOLD |-> thr, geometry |-> "valid"]

\* CYCLE values of the enumerated feature tables
RawCycles == {-1, 6, 16}
\* (CATEGORY, THRESHOLD) pairs of the enumerated feature tables
RowKinds == {<<TORNADO, P005>>, <<CATEGORICAL, TSTM>>, <<CATEGORICAL, SLGT>>,
             <<FIRE, ELEV>>, <<DRYT, DRYT>>}

AllRows == {Row(c, k[1], k[2]) : c \in RawCycles, k \in RowKinds}
\* without a CYCLE column the CYCLE field of a row is never read
AllRowsNoCycle == {Row(0, k[1], k[2]) : k \in RowKinds}

\* the content of a response body read as a zip archive: zip = it is a zip
\* archive, shps = it holds at least one .shp member, hasCycle = the combined
\* table has a CYCLE column, rows = the combined table
Archive(hc, rows) == [zip |-> TRUE, shps |-> TRUE, hasCycle |-> hc, rows |-> rows]
NoShpArchive == [zip |-> TRUE, shps |-> FALSE, hasCycle |-> FALSE, rows |-> {}]
NotAZip == [zip |-> FALSE, shps |-> FALSE, hasCycle |-> FALSE, rows |-> {}]

\* the five cycles of a Day 1 outlook, a tornado area in the first two
ExampleArchive ==
    Archive(TRUE, {Row(1, TORNADO, P005), Row(6, TORNADO, P005),
                   Row(13, CATEGORICAL, SLGT), Row(16, CATEGORICAL, SLGT),
                   Row(20, CATEGORICAL, TSTM)})

Archives ==
    {Archive(TRUE, r) : r \in {x \in SUBSET AllRows : Cardinality(x) <= MaxRows}}
    \cup {Archive(FALSE, r) :
             r \in {x \in SUBSET AllRowsNoCycle : Cardinality(x) <= MaxRows}}
    \cup {ExampleArchive, NoShpArchive, NotAZip}

\* one response of requests.get: an HTTP response (status, empty = the body has
\* length 0, archive = the body) or a raised exception
Http(st, e, a) == [exc |-> FALSE, status |-> st, empty |-> e, archive |-> a]
Ok(a) == Http(200, FALSE, a)
Raised == [exc |-> TRUE, status |-> 0, empty |-> TRUE, archive |-> NotAZip]

Responses == {Ok(ExampleArchive), Ok(NoShpArchive), Http(200, TRUE, NotAZip),
              Http(422, FALSE, NotAZip), Http(422, TRUE, NotAZip),
              Http(500, FALSE, NotAZip), Http(404, TRUE, NotAZip), Raised}

Args(d, n, t, h, f, c, q) ==
    [date |-> d, day |-> n, type |-> t, hazard |-> h, format |-> f,
     cycle |-> c, quick |-> q]

\* the tables of one cycle and one category whose thresholds are a
\* non-empty subset of keys
ThresholdTables(cat, keys) ==
    {Archive(TRUE, {Row(20, cat, t) : t \in ts}) : ts \in SUBSET keys \ {{}}}

\* for each convective hazard, the tables whose thresholds are keys of the
\* hazard's colour table
ThresholdArchives ==
    ThresholdTables(CATEGORICAL, ColorKeys("categorical"))
    \cup ThresholdTables(TORNADO, ColorKeys("tornado"))
    \cup ThresholdTables(WIND, ColorKeys("wind"))
    \cup ThresholdTables(HAIL, ColorKeys("hail"))

\* a category that names both the fire and the dry-thunderstorm outlook
FIRE_DRYT == <<"F","I","R","E"," ","D","R","Y","T">>

\* rows of further categories, and rows whose polygon is not valid
ExtraRows ==
    {Row(6, WIND, P015), Row(6, HAIL, P015), Row(6, DRY, ELEV),
     Row(6, FIRE_DRYT, ELEV), Row(16, DRY, ELEV),
     [Row(6, TORNADO, P005) EXCEPT !.geometry = "invalid"],
     [Row(6, FIRE, ELEV) EXCEPT !.geometry = "invalid"]}

ExtraArchives ==
    {Archive(TRUE, r) :
        r \in {x \in SUBSET ExtraRows : Cardinality(x) <= MaxRows}}

\* the nominal response of the service
Nominal == <<Ok(ExampleArchive), Raised, Raised>>

(***************************************************************************)
(* State.                                                                  *)
(***************************************************************************)
VARIABLES
    args,            \* the parsed command line (argparse namespace)
    script,          \* the response the service gives to each variant
    HAS_FOLIUM,      \* the interactive-map library was imported
    pc,              \* position of main()
    exit_code,       \* the status main() ended with, once pc = "exit"
    hazard_types,    \* main: requested hazards, None when not given
    output_formats,  \* main: requested formats, None when not given
    cycle_filter,    \* main: the cycle selector, None when not given
    geom_i,          \* fetch_outlook_data: index of the next geom variant
    params,          \* fetch_outlook_data: the query parameters
    requests,        \* the requests sent so far: params, and the response
    raw_zip,         \* the raw archive file: <<>> or <<the body written>>
    dirs,            \* directories created
    combined,        \* the combined feature table, once loaded
    cycles,          \* the cycles process_shapefiles_selective returned
    used_hazards,    \* per exporter, the hazard list it iterated over
    vec_files,       \* shapefiles and GeoJSON files written
    png_files,       \* plot panels written
    html_map         \* the interactive map: <<>> or <<the map written>>

\* the warnings tool (iem_warnings_tool.py)
VARIABLES
    w_args,          \* the parsed command line (argparse namespace)
    w_response,      \* the response the service gives to the request
    w_pc,            \* position of main()
    w_exit_code,     \* the status main() ended with, once w_pc = "exit"
    w_requests,      \* the query parameters of the requests sent so far
    w_data,          \* what fetch_current_warnings returned: <<>> is None
    w_dir,           \* the output directory exists
    w_files          \* files written

outlook == <<args, script, HAS_FOLIUM, pc, exit_code, hazard_types,
             output_formats, cycle_filter, geom_i, params, requests, raw_zip,
             dirs, combined, cycles, used_hazards, vec_files, png_files,
             html_map>>

warnings == <<w_args, w_response, w_pc, w_exit_code, w_requests, w_data,
              w_dir, w_files>>

vars == <<outlook, warnings>>

inputs == <<args, script, HAS_FOLIUM>>
mainLocals == <<hazard_types, output_formats, cycle_filter>>
fetchState == <<geom_i, params, requests, raw_zip>>
outputs == <<combined, cycles, used_hazards, vec_files, png_files, html_map>>

\* os.path.join(args.output, f"{args.date}_day{args.day}_{args.type}"),
\* relative to args.output
OutputDir(a) == Join(a.date) \o "_day" \o ToString(a.day) \o "_" \o a.type

NoExporter == [vector |-> None, plots |-> None, map |-> None]

Run(a, s, fo) == args = a /\ script = s /\ HAS_FOLIUM = fo

\* runs that vary the validated options
ValidationRuns ==
    \E d \in DateArgs, t \in Types, h \in HazardArgs, f \in FormatArgs,
       c \in {None, <<"0","6","z">>, <<"9","9","z">>} :
        Run(Args(d, 1, t, h, f, c, FALSE), Nominal, TRUE)

\* runs that vary the responses of the service
FetchRuns ==
    \E n \in {1, 2, 3}, t \in Types, q \in BOOLEAN, fo \in BOOLEAN,
       r1 \in Responses, r2 \in Responses, r3 \in Responses :
        Run(Args(DATE_OK, n, t, None, None, None, q), <<r1, r2, r3>>, fo)

\* runs that vary the cycle selector and the data
CycleRuns ==
    \E t \in Types, c \in CycleArgs, a \in Archives :
        Run(Args(DATE_OK, 1, t, None, None, c, FALSE),
            <<Ok(a), Raised, Raised>>, TRUE)

\* runs that vary the requested hazards and formats and the data
ExportRuns ==
    \E t \in Types, h \in HazardArgs, f \in FormatArgs, a \in Archives :
        Run(Args(DATE_OK, 1, t, h, f, None, FALSE),
            <<Http(422, FALSE, NotAZip), Ok(a), Raised>>, TRUE)

\* runs that vary the thresholds, the categories and the geometries
DetailRuns ==
    \E t \in Types, h \in HazardArgs,
       a \in ThresholdArchives \cup ExtraArchives :
        Run(Args(DATE_OK, 1, t, h, None, None, FALSE),
            <<Ok(a), Raised, Raised>>, TRUE)

\* the warnings tool is not run
WarningsOff ==
    /\ w_args = [wfo |-> None, state |-> None, phenomena |-> None,
                 significance |-> None, format |-> "geojson"]
    /\ w_response = [exc |-> TRUE, status |-> 0, json |-> "none",
                     features |-> <<>>]
    /\ w_pc = "off"
    /\ w_exit_code = 0
    /\ w_requests = <<>>
    /\ w_data = <<>>
    /\ w_dir = FALSE
    /\ w_files = {}

Init ==
    /\ ValidationRuns \/ FetchRuns \/ CycleRuns \/ ExportRuns \/ DetailRuns
    /\ WarningsOff
    /\ pc = "validate_date"
    /\ exit_code = 0
    /\ hazard_types = None
    /\ output_formats = None
    /\ cycle_filter = None
    /\ geom_i = 1
    /\ params = [d |-> "", type |-> "", geom |-> ""]
    /\ requests = <<>>
    /\ raw_zip = <<>>
    /\ dirs = {}
    /\ combined = NotAZip
    /\ cycles = <<>>
    /\ used_hazards = NoExporter
    /\ vec_files = {}
    /\ png_files = {}
    /\ html_map = <<>>

\* sys.exit(code), also reached by returning from main (code 0)
Exit(code) == pc' = "exit" /\ exit_code' = code

(***************************************************************************)
(* main: validation of the command line.                                   *)
(***************************************************************************)
ValidateDate ==
    /\ pc = "validate_date"
    /\ IF StrptimeOk(args.date)
       THEN pc' = "parse_hazard" /\ UNCHANGED exit_code
       ELSE Exit(1)
    /\ UNCHANGED <<warnings, inputs, mainLocals, fetchState, dirs, outputs>>

ParseHazard ==
    /\ pc = "parse_hazard"
    /\ IF args.hazard # None
       THEN LET hs == [i \in 1..Len(args.hazard) |-> StripLower(args.hazard[i])]
            IN /\ hazard_types' = hs
               /\ IF \E i \in 1..Len(hs) : hs[i] \notin ValidHazards(args.type)
                  THEN Exit(1)
                  ELSE pc' = "parse_format" /\ UNCHANGED exit_code
       ELSE /\ hazard_types' = None
            /\ pc' = "parse_format" /\ UNCHANGED exit_code
    /\ UNCHANGED <<warnings, inputs, output_formats, cycle_filter, fetchState, dirs,
                   outputs>>

ParseFormat ==
    /\ pc = "parse_format"
    /\ IF args.format # None
       THEN LET fs == [i \in 1..Len(args.format) |-> StripLower(args.format[i])]
            IN /\ output_formats' = fs
               /\ IF \E i \in 1..Len(fs) : fs[i] \notin ValidFormats
                  THEN Exit(1)
                  ELSE pc' = "validate_cycle" /\ UNCHANGED exit_code
       ELSE /\ output_formats' = None
            /\ pc' = "validate_cycle" /\ UNCHANGED exit_code
    /\ UNCHANGED <<warnings, inputs, hazard_types, cycle_filter, fetchState, dirs,
                   outputs>>

\* int(cycle_filter.replace('z', ''))
CycleNum(cf) == PyInt(Replace(cf, "z"))

\* the cycle validation with the ValueError of int() swallowed: a selector
\* that is not a number is dropped instead of rejected
CheckCycle_IgnoreFormat(arg) ==
    LET cf == IF arg # None THEN Lower(arg) ELSE None IN
    IF cf # None /\ cf # LATEST
    THEN LET n == CycleNum(cf) IN
         IF ~n.ok THEN [ok |-> TRUE, cf |-> None]
         ELSE IF n.val = 16 THEN [ok |-> TRUE, cf |-> CYCLE_1630Z]
         ELSE [ok |-> n.val \in ValidCycles, cf |-> cf]
    ELSE [ok |-> TRUE, cf |-> cf]

\* the cycle validation with the alias applied to the number only: 16 is
\* accepted but cycle_filter keeps the token as typed
CheckCycle_KeepToken(arg) ==
    LET cf == IF arg # None THEN Lower(arg) ELSE None IN
    IF cf # None /\ cf # LATEST
    THEN LET n == CycleNum(cf) IN
         IF ~n.ok THEN [ok |-> FALSE, cf |-> cf]
         ELSE IF n.val = 16 THEN [ok |-> TRUE, cf |-> cf]
         ELSE [ok |-> n.val \in ValidCycles, cf |-> cf]
    ELSE [ok |-> TRUE, cf |-> cf]

\* the cycle validation of main: ok = FALSE when it exits with status 1,
\* cf = the value of cycle_filter afterwards
CheckCycle(arg) ==
    LET cf == IF arg # None THEN Lower(arg) ELSE None IN
    IF cf # None /\ cf # LATEST
    THEN LET n == CycleNum(cf) IN
         IF ~n.ok THEN [ok |-> FALSE, cf |-> cf]
         ELSE IF n.val = 16 THEN [ok |-> TRUE, cf |-> CYCLE_1630Z]
         ELSE [ok |-> n.val \in ValidCycles, cf |-> cf]
    ELSE [ok |-> TRUE, cf |-> cf]

ValidateCycle ==
    /\ pc = "validate_cycle"
    /\ LET r == CheckCycle(args.cycle) IN
          /\ cycle_filter' = r.cf
          /\ IF r.ok THEN pc' = "makedirs" /\ UNCHANGED exit_code
             ELSE Exit(1)
    /\ UNCHANGED <<warnings, inputs, hazard_types, output_formats, fetchState, dirs,
                   outputs>>

\* os.makedirs(output_dir, exist_ok=True)
MakeOutputDir ==
    /\ pc = "makedirs"
    /\ dirs' = dirs \cup {OutputDir(args)}
    /\ pc' = "fetch"
    /\ UNCHANGED <<warnings, inputs, exit_code, mainLocals, fetchState, outputs>>


(***************************************************************************)
(* fetch_outlook_data: the geometry-variant loop.                          *)
(***************************************************************************)
\* params = {'d': str(day), 'type': outlook_type, 'sts': ..., 'ets': ...};
\* the two time stamps are fixed for the run and left out
FetchStart ==
    /\ pc = "fetch"
    /\ params' = [d |-> ToString(args.day),
                  type |-> IF args.type = "fire" THEN "F" ELSE "C",
                  geom |-> ""]
    /\ geom_i' = 1
    /\ pc' = "fetch_loop"
    /\ UNCHANGED <<warnings, inputs, exit_code, mainLocals, requests, raw_zip, dirs,
                   outputs>>

\* every HTTP response is taken as the archive, whatever its status
Accepted_AnyStatus(r) == ~r.exc

\* the response is taken as the outlook archive: r.status_code == 200
Accepted(r) == ~r.exc /\ r.status = 200

\* one iteration of the loop: set the geom parameter, send the request, and
\* on an accepted response write the raw archive and return its path
FetchAttempt ==
    /\ pc = "fetch_loop"
    /\ geom_i <= Len(GeomVariants)
    /\ LET geom == GeomVariants[geom_i]
           p == IF geom # "" THEN [params EXCEPT !.geom = geom] ELSE params
           r == script[geom_i]
       IN /\ params' = p
          /\ requests' = Append(requests, [params |-> p, resp |-> r])
          /\ IF Accepted(r)
             THEN /\ raw_zip' = <<[empty |-> r.empty, archive |-> r.archive]>>
                  /\ pc' = "fetched"
                  /\ UNCHANGED geom_i
             ELSE /\ geom_i' = geom_i + 1
                  /\ UNCHANGED <<raw_zip, pc>>
    /\ UNCHANGED <<warnings, inputs, exit_code, mainLocals, dirs, outputs>>

\* raise RuntimeError("Could not fetch data ..."), caught by main, which
\* exits with status 1
FetchExhausted ==
    /\ pc = "fetch_loop"
    /\ geom_i > Len(GeomVariants)
    /\ Exit(1)
    /\ UNCHANGED <<warnings, inputs, mainLocals, fetchState, dirs, outputs>>

\* a run that never takes the download-only path
Quick_Never == FALSE

\* args.quick, the download-only mode
Quick == args.quick

\* if args.quick: return
QuickReturn ==
    /\ pc = "fetched"
    /\ Quick
    /\ Exit(0)
    /\ UNCHANGED <<warnings, inputs, mainLocals, fetchState, dirs, outputs>>

(***************************************************************************)
(* process_shapefiles_selective: the cycle and hazard partitioner and the  *)
(* vector export.                                                          *)
(***************************************************************************)
RECURSIVE Sorted(_)
\* sorted(S) for a set of integers
Sorted(S) ==
    IF S = {} THEN <<>>
    ELSE LET m == CHOOSE x \in S : \A y \in S : x <= y
         IN <<m>> \o Sorted(S \ {m})

\* sorted(combined['CYCLE'].unique()) if 'CYCLE' in combined.columns else [0]
AllCycles(table) ==
    IF table.hasCycle THEN Sorted({r.CYCLE : r \in table.rows}) ELSE <<0>>

\* 'latest' taking the first cycle of the list instead of the last
ResolveCycles_First(all_cycles, cf) ==
    IF cf # None
    THEN IF cf = LATEST
         THEN IF all_cycles = <<>> THEN [err |-> TRUE, cycles |-> <<>>]
              ELSE [err |-> FALSE, cycles |-> <<all_cycles[1]>>]
         ELSE LET n == CycleNum(cf) IN
              IF ~n.ok THEN [err |-> TRUE, cycles |-> <<>>]
              ELSE LET sel == SelectSeq(all_cycles, LAMBDA c : c = n.val) IN
                   [err |-> FALSE,
                    cycles |-> IF sel = <<>> THEN all_cycles ELSE sel]
    ELSE [err |-> FALSE, cycles |-> all_cycles]

\* the cycle filter of process_shapefiles_selective: err = an exception is
\* raised (all_cycles[-1] of an empty list, int() of a non-number)
ResolveCycles(all_cycles, cf) ==
    IF cf # None
    THEN IF cf = LATEST
         THEN IF all_cycles = <<>> THEN [err |-> TRUE, cycles |-> <<>>]
              ELSE [err |-> FALSE, cycles |-> <<all_cycles[Len(all_cycles)]>>]
         ELSE LET n == CycleNum(cf) IN
              IF ~n.ok THEN [err |-> TRUE, cycles |-> <<>>]
              ELSE LET sel == SelectSeq(all_cycles, LAMBDA c : c = n.val) IN
                   [err |-> FALSE,
                    cycles |-> IF sel = <<>> THEN all_cycles ELSE sel]
    ELSE [err |-> FALSE, cycles |-> all_cycles]

\* combined[combined['CYCLE'] == cycle] if 'CYCLE' in combined.columns
\* else combined
CycleData(table, cycle) ==
    IF table.hasCycle THEN {r \in table.rows : r.CYCLE = cycle} ELSE table.rows

\* the hail entry testing the category of the wind entry
Hazards_HailFromWind(hazard, cycle_data) ==
    CASE hazard = "categorical" -> {r \in cycle_data : r.CATEGORY = CATEGORICAL}
      [] hazard = "tornado" -> {r \in cycle_data : r.CATEGORY = TORNADO}
      [] hazard = "wind" -> {r \in cycle_data : r.CATEGORY = WIND}
      [] hazard = "hail" -> {r \in cycle_data : r.CATEGORY = WIND}
      [] hazard = "fire" -> {r \in cycle_data : Contains(r.CATEGORY, FIRE)}
      [] hazard = "dryt" -> {r \in cycle_data : Contains(r.CATEGORY, DRY)}
      [] hazard = "tstm" -> {r \in cycle_data : r.CATEGORY = CATEGORICAL
                                                /\ r.THRESHOLD = TSTM}
      [] OTHER -> {}

\* hazards.get(hazard) of process_shapefiles_selective, None written {}
Hazards(hazard, cycle_data) ==
    CASE hazard = "categorical" -> {r \in cycle_data : r.CATEGORY = CATEGORICAL}
      [] hazard = "tornado" -> {r \in cycle_data : r.CATEGORY = TORNADO}
      [] hazard = "wind" -> {r \in cycle_data : r.CATEGORY = WIND}
      [] hazard = "hail" -> {r \in cycle_data : r.CATEGORY = HAIL}
      [] hazard = "fire" -> {r \in cycle_data : Contains(r.CATEGORY, FIRE)}
      [] hazard = "dryt" -> {r \in cycle_data : Contains(r.CATEGORY, DRY)}
      [] hazard = "tstm" -> {r \in cycle_data : r.CATEGORY = CATEGORICAL
                                                /\ r.THRESHOLD = TSTM}
      [] OTHER -> {}

\* os.path.join(output_dir, f'cycle_{cycle:02d}z')
CycleDir(output_dir, cycle) == output_dir \o "/cycle_" \o Fmt02d(cycle) \o "z"

\* os.path.join(cycle_dir, f'{hazard}_{date_str}_{cycle:02d}z.<ext>')
FilePath(output_dir, cycle, hazard, date_str, ext) ==
    CycleDir(output_dir, cycle) \o "/" \o hazard \o "_" \o Join(date_str)
        \o "_" \o Fmt02d(cycle) \o "z." \o ext

\* the cycle loop without the test for an empty subset
VectorFiles_KeepEmpty(table, cs, hts, fmts, output_dir, date_str) ==
    {[path |-> FilePath(output_dir, cs[i], hts[j], date_str, ext),
      cycle |-> cs[i], hazard |-> hts[j], ext |-> ext,
      rows |-> Hazards(hts[j], CycleData(table, cs[i]))] :
        i \in 1..Len(cs), j \in 1..Len(hts),
        ext \in {"shp", "geojson"} \cap Range(fmts)}

\* the files the cycle loop of process_shapefiles_selective writes: one per
\* cycle, requested hazard with a non-empty subset and requested vector format
VectorFiles(table, cs, hts, fmts, output_dir, date_str) ==
    LET all == {[path |-> FilePath(output_dir, cs[i], hts[j], date_str, ext),
                 cycle |-> cs[i], hazard |-> hts[j], ext |-> ext,
                 rows |-> Hazards(hts[j], CycleData(table, cs[i]))] :
                   i \in 1..Len(cs), j \in 1..Len(hts),
                   ext \in {"shp", "geojson"} \cap Range(fmts)}
    IN {f \in all : f.rows # {}}

\* the cycle directories the loop creates: on the first requested hazard of
\* the cycle whose subset is not empty
VectorDirs(table, cs, hts, output_dir) ==
    {CycleDir(output_dir, cs[i]) : i \in
        {k \in 1..Len(cs) : \E j \in 1..Len(hts) :
                               Hazards(hts[j], CycleData(table, cs[k])) # {}}}

\* process_shapefiles_selective as called by main.  The archive cannot be
\* opened (empty or not a zip: BadZipFile), holds no shapefile (RuntimeError)
\* or the cycle filter raises: main exits with status 1.
Process ==
    /\ pc = "fetched"
    /\ ~Quick
    /\ LET body == raw_zip[1]
           table == body.archive
           hts == IF hazard_types = None THEN DefaultHazards(args.type)
                  ELSE hazard_types
           fmts == IF output_formats = None THEN <<"shp", "geojson">>
                   ELSE output_formats
           rc == ResolveCycles(AllCycles(table), cycle_filter)
       IN IF body.empty \/ ~table.zip \/ ~table.shps
          THEN /\ Exit(1)
               /\ UNCHANGED <<dirs, outputs>>
          ELSE IF rc.err
          THEN /\ Exit(1)
               /\ used_hazards' = [used_hazards EXCEPT !.vector = hts]
               /\ UNCHANGED <<dirs, combined, cycles, vec_files, png_files,
                              html_map>>
          ELSE /\ combined' = table
               /\ cycles' = rc.cycles
               /\ used_hazards' = [used_hazards EXCEPT !.vector = hts]
               /\ vec_files' = VectorFiles(table, rc.cycles, hts, fmts,
                                           OutputDir(args), args.date)
               /\ dirs' = dirs \cup VectorDirs(table, rc.cycles, hts,
                                               OutputDir(args))
               /\ pc' = "plots"
               /\ UNCHANGED <<exit_code, png_files, html_map>>
    /\ UNCHANGED <<warnings, inputs, mainLocals, fetchState>>

(***************************************************************************)
(* create_plots_selective: one PNG panel per cycle and hazard.             *)
(***************************************************************************)
\* plot_configs[hazard_type][0] and hazard_configs[hazard_type][1]
ConfigCategory(hazard) ==
    CASE hazard = "categorical" -> CATEGORICAL
      [] hazard = "tornado" -> TORNADO
      [] hazard = "wind" -> WIND
      [] hazard = "hail" -> HAIL
      [] hazard = "fire" -> FIRE
      [] hazard = "dryt" -> DRYT
      [] hazard = "tstm" -> TSTM

\* the 'Filter data' chain of create_plots_selective and
\* create_html_map_selective on the configured category
FilterData(category, cycle_data) ==
    IF category = FIRE
    THEN {r \in cycle_data : Contains(r.CATEGORY, FIRE)}
    ELSE IF category = DRY
    THEN {r \in cycle_data : Contains(r.CATEGORY, DRY)}
    ELSE IF category = TSTM
    THEN {r \in cycle_data : r.CATEGORY = CATEGORICAL /\ r.THRESHOLD = TSTM}
    ELSE {r \in cycle_data : r.CATEGORY = category}

\* the hazards of plot_configs and hazard_configs
ConfiguredHazards ==
    {"categorical", "tornado", "wind", "hail", "fire", "dryt", "tstm"}

\* plot_cycles of create_plots_selective
PlotCycles(cs, cf) ==
    IF cf # None
    THEN IF cf = LATEST
         THEN IF cs = <<>> THEN [err |-> TRUE, cycles |-> <<>>]
              ELSE [err |-> FALSE, cycles |-> <<cs[Len(cs)]>>]
         ELSE LET n == CycleNum(cf) IN
              IF ~n.ok THEN [err |-> TRUE, cycles |-> <<>>]
              ELSE LET sel == SelectSeq(cs, LAMBDA c : c = n.val) IN
                   [err |-> FALSE, cycles |-> IF sel = <<>> THEN cs ELSE sel]
    ELSE [err |-> FALSE, cycles |-> cs]

\* thresholds = sorted(plot_data['THRESHOLD'].unique()): the order in which
\* the threshold buckets of a panel are drawn; empty on a 'no data' panel
PlotThresholds(plot_data) == SortedStr({r.THRESHOLD : r \in plot_data})

\* the hazard loop skipping a hazard whose subset is empty
PlotFiles_SkipEmpty(table, pcs, hts, output_dir, date_str) ==
    LET all == {[path |-> FilePath(output_dir, pcs[i], hts[j], date_str, "png"),
                 cycle |-> pcs[i], hazard |-> hts[j], ext |-> "png",
                 rows |-> FilterData(ConfigCategory(hts[j]),
                                     CycleData(table, pcs[i])),
                 thresholds |-> PlotThresholds(
                     FilterData(ConfigCategory(hts[j]),
                                CycleData(table, pcs[i])))] :
                   i \in 1..Len(pcs),
                   j \in {k \in 1..Len(hts) : hts[k] \in ConfiguredHazards}}
    IN {f \in all : f.rows # {}}

\* the panels create_plots_selective saves: one per plot cycle and hazard,
\* a panel with no rows being the 'No ... Data' placeholder
PlotFiles(table, pcs, hts, output_dir, date_str) ==
    {[path |-> FilePath(output_dir, pcs[i], hts[j], date_str, "png"),
      cycle |-> pcs[i], hazard |-> hts[j], ext |-> "png",
      rows |-> FilterData(ConfigCategory(hts[j]), CycleData(table, pcs[i])),
      thresholds |-> PlotThresholds(
          FilterData(ConfigCategory(hts[j]), CycleData(table, pcs[i])))] :
        i \in 1..Len(pcs),
        j \in {k \in 1..Len(hts) : hts[k] \in ConfiguredHazards}}

\* if not output_formats or 'png' in output_formats
PlotsRequested == output_formats = None \/ "png" \in Range(output_formats)

CreatePlots ==
    /\ pc = "plots"
    /\ PlotsRequested
    /\ LET hts == IF hazard_types = None THEN DefaultHazards(args.type)
                  ELSE hazard_types
           pl == PlotCycles(cycles, cycle_filter)
           files == PlotFiles(combined, pl.cycles, hts, OutputDir(args),
                              args.date)
       IN /\ used_hazards' = [used_hazards EXCEPT !.plots = hts]
          /\ IF pl.err
             THEN /\ Exit(1)
                  /\ UNCHANGED <<dirs, png_files>>
             ELSE /\ png_files' = files
                  /\ dirs' = dirs \cup
                       {CycleDir(OutputDir(args), f.cycle) : f \in files}
                  /\ pc' = "html"
                  /\ UNCHANGED exit_code
    /\ UNCHANGED <<warnings, inputs, mainLocals, fetchState, combined, cycles,
                   vec_files, html_map>>

SkipPlots ==
    /\ pc = "plots"
    /\ ~PlotsRequested
    /\ pc' = "html"
    /\ UNCHANGED <<warnings, inputs, exit_code, mainLocals, fetchState, dirs, outputs>>

(***************************************************************************)
(* create_html_map_selective: one layered map of the display cycle.        *)
(***************************************************************************)
\* the display cycle taken from the front of the cycle list
DisplayCycle_First(cs, cf) ==
    IF cf # None /\ cf # LATEST /\ CycleNum(cf).ok
                 /\ \E i \in 1..Len(cs) : cs[i] = CycleNum(cf).val
    THEN [err |-> FALSE, cycle |-> CycleNum(cf).val]
    ELSE IF cf # None /\ cf # LATEST /\ ~CycleNum(cf).ok
    THEN [err |-> TRUE, cycle |-> 0]
    ELSE IF cs = <<>> THEN [err |-> TRUE, cycle |-> 0]
    ELSE [err |-> FALSE, cycle |-> cs[1]]

\* display_cycle: err = cycles[-1] of an empty list raises IndexError
DisplayCycle(cs, cf) ==
    IF cf # None /\ cf # LATEST /\ CycleNum(cf).ok
                 /\ \E i \in 1..Len(cs) : cs[i] = CycleNum(cf).val
    THEN [err |-> FALSE, cycle |-> CycleNum(cf).val]
    ELSE IF cf # None /\ cf # LATEST /\ ~CycleNum(cf).ok
    THEN [err |-> TRUE, cycle |-> 0]
    ELSE IF cs = <<>> THEN [err |-> TRUE, cycle |-> 0]
    ELSE [err |-> FALSE, cycle |-> cs[Len(cs)]]

\* the polygons of one layer in the order they are added: the rows of the
\* hazard sorted by sort_order
LayerOrders(hazard, cycle_data) ==
    LET hazard_data == FilterData(ConfigCategory(hazard), cycle_data)
        key == [r \in hazard_data |->
                   SortOrder(ConfigCategory(hazard), r.THRESHOLD)]
    IN SortValues(hazard_data, key)

RECURSIVE MapLayers(_, _)
\* the layer lists the map can get, one feature group per hazard
MapLayers(shown, cycle_data) ==
    IF shown = <<>> THEN {<<>>}
    ELSE {<<[hazard |-> Head(shown),
             rows |-> FilterData(ConfigCategory(Head(shown)), cycle_data),
             order |-> o]>> \o rest :
            o \in LayerOrders(Head(shown), cycle_data),
            rest \in MapLayers(Tail(shown), cycle_data)}

\* if not output_formats or 'html' in output_formats
MapRequested == output_formats = None \/ "html" \in Range(output_formats)

\* main passes args.type.title() as outlook_type
CreateHtmlMap ==
    /\ pc = "html"
    /\ MapRequested
    /\ IF ~HAS_FOLIUM
       THEN /\ pc' = "complete"
            /\ UNCHANGED <<exit_code, used_hazards, html_map>>
       ELSE LET hts == IF hazard_types = None
                       THEN DefaultHazards(Title(args.type))
                       ELSE hazard_types
                dc == DisplayCycle(cycles, cycle_filter)
                cycle_data == CycleData(combined, dc.cycle)
                shown == SelectSeq(hts, LAMBDA h : h \in ConfiguredHazards)
            IN /\ used_hazards' = [used_hazards EXCEPT !.map = hts]
               /\ IF dc.err
                  THEN Exit(1) /\ UNCHANGED html_map
                  ELSE /\ \E ls \in MapLayers(shown, cycle_data) :
                            html_map' =
                              <<[path |-> OutputDir(args)
                                     \o "/interactive_map_"
                                     \o Join(args.date) \o ".html",
                                 display_cycle |-> dc.cycle,
                                 layers |-> ls]>>
                       /\ pc' = "complete"
                       /\ UNCHANGED exit_code
    /\ UNCHANGED <<warnings, inputs, mainLocals, fetchState, dirs, combined, cycles,
                   vec_files, png_files>>

SkipHtmlMap ==
    /\ pc = "html"
    /\ ~MapRequested
    /\ pc' = "complete"
    /\ UNCHANGED <<warnings, inputs, exit_code, mainLocals, fetchState, dirs, outputs>>

\* main prints the completion message and returns
Complete ==
    /\ pc = "complete"
    /\ Exit(0)
    /\ UNCHANGED <<warnings, inputs, mainLocals, fetchState, dirs, outputs>>

Next ==
    \/ ValidateDate
    \/ ParseHazard
    \/ ParseFormat
    \/ ValidateCycle
    \/ MakeOutputDir
    \/ FetchStart
    \/ FetchAttempt
    \/ FetchExhausted
    \/ QuickReturn
    \/ Process
    \/ CreatePlots
    \/ SkipPlots
    \/ CreateHtmlMap
    \/ SkipHtmlMap
    \/ Complete

Spec == Init /\ [][Next]_vars

(***************************************************************************)
(* iem_warnings_tool.py: one run of main().                                *)
(***************************************************************************)
\* the largest number of features in a response
MaxFeatures == 2

\* one feature of the collection: the properties the tool reads, and
\* whether its polygon is valid
Feature(w, p, g, geom) ==
    [wfo |-> w, phenomena |-> p, significance |-> g, geometry |-> geom]

Features ==
    {Feature(<<"D","M","X">>, <<"T","O">>, <<"W">>, "valid"), Feature(<<"D","M","X">>, <<"S","V">>, <<"W">>, "invalid"),
     Feature(<<"O","A","X">>, <<"T","O">>, <<"W">>, "valid"), Feature(<<"D","M","X">>, <<"T","O">>, <<"A">>, "valid"),
     Feature(<<"O","A","X">>, <<"S","V">>, <<"A">>, "invalid"), Feature(<<"D","M","X">>, <<"t","o">>, <<"W">>, "valid")}

\* the feature lists a response can carry
Collections ==
    UNION {[1..n -> Features] : n \in 0..MaxFeatures}

\* one response of requests.get: a raised transport exception, or a status
\* and a body; json says what response.json() makes of the body: "object"
\* (a feature collection), "array" (JSON, but not an object) or "none"
WHttp(st, j, fs) == [exc |-> FALSE, status |-> st, json |-> j, features |-> fs]
WRaised == [exc |-> TRUE, status |-> 0, json |-> "none", features |-> <<>>]

WFailures ==
    {WRaised, WHttp(404, "none", <<>>), WHttp(500, "none", <<>>),
     WHttp(404, "object", <<>>), WHttp(200, "none", <<>>),
     WHttp(204, "none", <<>>), WHttp(200, "array", <<>>),
     WHttp(300, "none", <<>>)}
    \cup {WHttp(300, "object", fs) : fs \in Collections}

WArgs(w, st, p, g, f) ==
    [wfo |-> w, state |-> st, phenomena |-> p, significance |-> g,
     format |-> f]

WfoArgs == {None, <<"d","m","x">>, <<"O","A","X">>}
PhenomenaArgs == {None, <<"t","o">>, <<"S","V">>}
SignificanceArgs == {None, <<"w">>, <<"A">>}
WFormats == {"geojson", "shp", "both"}

WRun(a, r) == w_args = a /\ w_response = r

\* every combination of filters on every collection
WFilterRuns ==
    \E w \in WfoArgs, p \in PhenomenaArgs, g \in SignificanceArgs,
       fs \in Collections :
       WRun(WArgs(w, None, p, g, "geojson"), WHttp(200, "object", fs))

\* every output format on every collection, with and without --state
WExportRuns ==
    \E st \in {None, <<"I","A">>}, f \in WFormats, fs \in Collections :
       WRun(WArgs(None, st, None, None, f), WHttp(200, "object", fs))

\* every output format on every response that is not a feature collection
\* with status 200
WFailureRuns ==
    \E w \in WfoArgs, f \in WFormats, r \in WFailures :
       WRun(WArgs(w, None, None, None, f), r)

\* the outlook tool is not run
OutlookOff ==
    /\ Run(Args(DATE_OK, 1, "convective", None, None, None, FALSE),
           Nominal, FALSE)
    /\ pc = "off"
    /\ exit_code = 0
    /\ hazard_types = None
    /\ output_formats = None
    /\ cycle_filter = None
    /\ geom_i = 1
    /\ params = [d |-> "", type |-> "", geom |-> ""]
    /\ requests = <<>>
    /\ raw_zip = <<>>
    /\ dirs = {}
    /\ combined = NotAZip
    /\ cycles = <<>>
    /\ used_hazards = NoExporter
    /\ vec_files = {}
    /\ png_files = {}
    /\ html_map = <<>>

InitW ==
    /\ WFilterRuns \/ WExportRuns \/ WFailureRuns
    /\ w_pc = "mkdir"
    /\ w_exit_code = 0
    /\ w_requests = <<>>
    /\ w_data = <<>>
    /\ w_dir = FALSE
    /\ w_files = {}
    /\ OutlookOff

WExit(code) == w_pc' = "exit" /\ w_exit_code' = code

\* output_dir.mkdir(parents=True, exist_ok=True)
WMakeOutputDir ==
    /\ w_pc = "mkdir"
    /\ w_dir' = TRUE
    /\ w_pc' = "fetch"
    /\ UNCHANGED <<outlook, w_args, w_response, w_exit_code, w_requests,
                   w_data, w_files>>

\* params of fetch_current_warnings: wfo is sent only when given
QueryParams(a) == [wfo |-> IF a.wfo # None THEN Upper(a.wfo) ELSE None]

\* the client-side filters of fetch_current_warnings, phenomena first
FilterFeatures(features, a) ==
    LET byPhenomena ==
            IF a.phenomena # None
            THEN SelectSeq(features,
                           LAMBDA f : f.phenomena = Upper(a.phenomena))
            ELSE features
    IN IF a.significance # None
       THEN SelectSeq(byPhenomena,
                      LAMBDA f : f.significance = Upper(a.significance))
       ELSE byPhenomena

\* raise_for_status() raises HTTPError
HttpError(r) == r.status >= 400 /\ r.status < 600

\* what fetch_current_warnings does with the response r: raised = an
\* exception that is no RequestException leaves the function (data.get of a
\* JSON value that is not an object); data = <<>> is the None returned on a
\* RequestException (transport failure, HTTPError, body that is not JSON)
FetchCurrentWarnings(r, a) ==
    IF r.exc \/ HttpError(r) \/ r.json = "none"
    THEN [raised |-> FALSE, data |-> <<>>]
    ELSE IF r.json # "object"
    THEN [raised |-> TRUE, data |-> <<>>]
    ELSE LET features == FilterFeatures(r.features, a)
         IN [raised |-> FALSE,
             data |-> <<[features |-> features, count |-> Len(features)]>>]

\* data = fetch_current_warnings(...): one requests.get; an exception that
\* leaves the function ends the interpreter with status 1
WFetch ==
    /\ w_pc = "fetch"
    /\ w_requests' = Append(w_requests, QueryParams(w_args))
    /\ LET res == FetchCurrentWarnings(w_response, w_args)
       IN IF res.raised
          THEN WExit(1) /\ UNCHANGED w_data
          ELSE w_data' = res.data /\ w_pc' = "fetched" /\ UNCHANGED w_exit_code
    /\ UNCHANGED <<outlook, w_args, w_response, w_dir, w_files>>

\* if not data: print("Failed to fetch warnings"); sys.exit(1)
WFetchFailed ==
    /\ w_pc = "fetched"
    /\ w_data = <<>>
    /\ WExit(1)
    /\ UNCHANGED <<outlook, w_args, w_response, w_requests, w_data, w_dir,
                   w_files>>

\* '_'.join(filename_parts) without the time stamp
FilenameBase(a) ==
    "warnings"
        \o (IF a.wfo # None THEN "_wfo_" \o Join(a.wfo) ELSE "")
        \o (IF a.phenomena # None THEN "_" \o Join(a.phenomena) ELSE "")
        \o (IF a.significance # None THEN "_" \o Join(a.significance) ELSE "")

\* if args.format in ['geojson', 'both']: save_geojson(data, geojson_path)
WSaveGeojson ==
    /\ w_pc = "fetched"
    /\ w_data # <<>>
    /\ w_args.format \in {"geojson", "both"}
    /\ w_files' = w_files \cup
          {[path |-> FilenameBase(w_args) \o ".geojson", ext |-> "geojson",
            features |-> w_data[1].features]}
    /\ w_pc' = "shp"
    /\ UNCHANGED <<outlook, w_args, w_response, w_exit_code, w_requests,
                   w_data, w_dir>>

WSkipGeojson ==
    /\ w_pc = "fetched"
    /\ w_data # <<>>
    /\ w_args.format \notin {"geojson", "both"}
    /\ w_pc' = "shp"
    /\ UNCHANGED <<outlook, w_args, w_response, w_exit_code, w_requests,
                   w_data, w_dir, w_files>>

\* geom if geom.is_valid else geom.buffer(0), on every feature
EnsureValid(features) ==
    [i \in 1..Len(features) |->
        IF features[i].geometry = "valid" THEN features[i]
        ELSE [features[i] EXCEPT !.geometry = "buffered"]]

\* if args.format in ['shp', 'both']: save_shapefile(data, shp_path), which
\* writes nothing when there are no features
WSaveShapefile ==
    /\ w_pc = "shp"
    /\ w_args.format \in {"shp", "both"}
    /\ w_files' =
          IF w_data[1].features = <<>> THEN w_files
          ELSE w_files \cup
                 {[path |-> FilenameBase(w_args) \o ".shp", ext |-> "shp",
                   features |-> EnsureValid(w_data[1].features)]}
    /\ w_pc' = "complete"
    /\ UNCHANGED <<outlook, w_args, w_response, w_exit_code, w_requests,
                   w_data, w_dir>>

WSkipShapefile ==
    /\ w_pc = "shp"
    /\ w_args.format \notin {"shp", "both"}
    /\ w_pc' = "complete"
    /\ UNCHANGED <<outlook, w_args, w_response, w_exit_code, w_requests,
                   w_data, w_dir, w_files>>

\* main prints the completion message and returns
WComplete ==
    /\ w_pc = "complete"
    /\ WExit(0)
    /\ UNCHANGED <<outlook, w_args, w_response, w_requests, w_data, w_dir,
                   w_files>>

NextW ==
    \/ WMakeOutputDir
    \/ WFetch
    \/ WFetchFailed
    \/ WSaveGeojson
    \/ WSkipGeojson
    \/ WSaveShapefile
    \/ WSkipShapefile
    \/ WComplete

SpecW == InitW /\ [][NextW]_vars


(***************************************************************************)
(* Properties.                                                             *)
(***************************************************************************)
\* the feature table was loaded by process_shapefiles_selective
Loaded == combined.shps

\* the cycles present in the loaded table (the implicit cycle 0 without a
\* CYCLE column)
DataCycles ==
    IF combined.hasCycle THEN {r.CYCLE : r \in combined.rows} ELSE {0}

Max(S) == CHOOSE x \in S : \A y \in S : y <= x

\* a sequence of integers is strictly increasing
Increasing(q) == \A i \in 1..(Len(q) - 1) : q[i] < q[i + 1]

\* a response the specification counts as a success
Success(r) == ~r.exc /\ r.status = 200 /\ ~r.empty
\* a response that is not a status-200 response
Failed(r) == r.exc \/ r.status # 200

ValidationStages == {"validate_date", "parse_hazard", "parse_format",
                     "validate_cycle"}

\* C1: fetch_outlook_data sends its requests in the order (no geom, geom=lyr,
\* geom=nolyr), the i-th request carrying exactly the geom value of the i-th
\* variant; it sends at most three requests, none after a successful
\* response, and it has left the loop once a response was a success.
C1_FetchOrder ==
    /\ Len(requests) <= 3
    /\ \A i \in 1..Len(requests) :
          /\ requests[i].params.geom = <<"", "lyr", "nolyr">>[i]
          /\ Success(requests[i].resp) =>
                i = Len(requests) /\ pc # "fetch_loop"

\* C1 witness: the first two variants failed and the third request, carrying
\* geom=nolyr, was the success the loop stopped at
C1_Witness ==
    /\ Len(requests) = 3
    /\ ~Success(requests[1].resp) /\ ~Success(requests[2].resp)
    /\ Success(requests[3].resp)
    /\ requests[3].params.geom = "nolyr"
    /\ pc = "fetched"

\* C2: a response with status 200 and an empty body is not a success: it does
\* not end the variant loop and no raw archive is returned for it.
C2_EmptyBodyNotAccepted ==
    \A i \in 1..Len(requests) :
        (~requests[i].resp.exc /\ requests[i].resp.status = 200
            /\ requests[i].resp.empty)
        => /\ raw_zip = <<>> \/ ~raw_zip[1].empty
           /\ i = Len(requests) => pc = "fetch_loop" /\ geom_i = i + 1

\* C3: a 422 response, any other non-200 response or an exception on a variant
\* only moves on to the next variant; when all three variants have failed no
\* raw archive is written, no processing or export step runs and the tool
\* ends with status 1.
C3_AllVariantsFail ==
    /\ \A i \in 1..Len(requests) :
          (Failed(requests[i].resp) /\ i < 3)
          => \/ Len(requests) > i
             \/ pc = "fetch_loop" /\ geom_i = i + 1
    /\ (Len(requests) = 3 /\ \A i \in 1..3 : Failed(requests[i].resp))
       => /\ raw_zip = <<>>
          /\ ~Loaded /\ cycles = <<>> /\ used_hazards = NoExporter
          /\ vec_files = {} /\ png_files = {} /\ html_map = <<>>
          /\ pc \in {"fetch_loop", "exit"}
          /\ pc = "exit" => exit_code = 1

\* C3 witness: three failed variants, a 422 among them, and the run ended
\* with status 1
C3_Witness ==
    /\ Len(requests) = 3
    /\ \A i \in 1..3 : Failed(requests[i].resp)
    /\ \E i \in 1..3 : ~requests[i].resp.exc /\ requests[i].resp.status = 422
    /\ pc = "exit" /\ exit_code = 1

\* the dates of DateArgs that name a day of the calendar
C4_DateValid ==
    args.date \in {<<"2","0","2","5","-","0","3","-","1","4">>,
                   <<"2","0","2","4","-","0","2","-","2","9">>,
                   <<"2","0","2","5","-","3","-","4">>}
C4_Normal(t) ==
    CASE t = "TORNADO" -> "tornado" [] t = " wind" -> "wind"
      [] t = "Fire" -> "fire" [] t = "SHP" -> "shp" [] t = " png" -> "png"
      [] OTHER -> t
C4_HazardsValid ==
    \A i \in 1..Len(args.hazard) :
        C4_Normal(args.hazard[i]) \in
            (IF args.type = "fire" THEN {"fire", "dryt"}
             ELSE {"categorical", "tornado", "wind", "hail", "tstm"})
C4_FormatsValid ==
    \A i \in 1..Len(args.format) :
        C4_Normal(args.format[i]) \in {"shp", "geojson", "png", "html"}

\* C4: a run whose date is invalid, or that names a hazard outside the
\* allow-list of its outlook type or a format outside the allow-list, ends
\* with status 1 without having sent a request; a run whose date, hazards and
\* formats are all valid is not rejected by these validations (only the
\* cycle selector can still end it before the first request).
C4_ValidateBeforeFetch ==
    /\ ~(C4_DateValid /\ C4_HazardsValid /\ C4_FormatsValid)
       => /\ requests = <<>> /\ raw_zip = <<>> /\ dirs = {}
          /\ pc \in {"validate_date", "parse_hazard", "parse_format", "exit"}
          /\ pc = "exit" => exit_code = 1
    /\ (C4_DateValid /\ C4_HazardsValid /\ C4_FormatsValid)
       => /\ pc = "exit" /\ requests = <<>> => args.cycle # None
          /\ pc \notin ValidationStages /\ pc # "exit" =>
                /\ Len(hazard_types) = Len(args.hazard)
                /\ Len(output_formats) = Len(args.format)

\* C4 witness: hazard "bogus" for type convective was rejected with status 1
\* and no request was made
C4_Witness ==
    /\ args.hazard = <<"bogus">> /\ args.type = "convective"
    /\ C4_DateValid
    /\ pc = "exit" /\ exit_code = 1
    /\ requests = <<>>

\* the cycle number a validated selector names
C5_TokenCycle(cf) ==
    CASE cf = <<"0","1","z">> -> 1
      [] cf = <<"0","6","z">> -> 6
      [] cf = <<"6">> -> 6
      [] cf = <<"1","3","z">> -> 13
      [] cf = <<"1","6","3","0","z">> -> 1630
      [] cf = <<"2","0","z">> -> 20

\* C5: on a loaded table with at least one cycle, 'latest' resolves to exactly
\* the maximum cycle, an unset selector to every cycle in ascending order, an
\* explicit token to exactly its cycle when the data has it and to every
\* cycle when it has not; none of these cases ends the run with an error.
C5_CycleResolution ==
    /\ (Loaded /\ DataCycles # {}) =>
          /\ cycle_filter = <<"l","a","t","e","s","t">> =>
                cycles = <<Max(DataCycles)>>
          /\ cycle_filter = None =>
                Range(cycles) = DataCycles /\ Increasing(cycles)
          /\ (cycle_filter # None /\ cycle_filter # <<"l","a","t","e","s","t">>)
             => IF C5_TokenCycle(cycle_filter) \in DataCycles
                THEN cycles = <<C5_TokenCycle(cycle_filter)>>
                ELSE Range(cycles) = DataCycles /\ Increasing(cycles)
          /\ pc = "exit" => exit_code = 0
    /\ (raw_zip # <<>> /\ ~raw_zip[1].empty /\ raw_zip[1].archive.shps
          /\ (raw_zip[1].archive.rows # {} \/ ~raw_zip[1].archive.hasCycle)
          /\ ~args.quick /\ pc = "exit")
       => Loaded /\ exit_code = 0

\* C5 witness: 'latest' on the cycles 1, 6, 13, 16, 20 resolved to 20 alone
C5_Witness ==
    /\ Loaded /\ DataCycles = {1, 6, 13, 16, 20}
    /\ cycle_filter = LATEST
    /\ cycles = <<20>>
    /\ pc = "exit"


ALL == <<"a","l","l">>

\* C6 as stated: a run with the cycle selector 'all' is not rejected by the
\* validation of main, and once the table is loaded it has resolved to every
\* cycle of the data, as an unset selector does.
C6_AllAccepted ==
    args.cycle = ALL =>
        /\ ~(pc = "exit" /\ exit_code = 1 /\ requests = <<>>)
        /\ Loaded => Range(cycles) = DataCycles

\* C6 amended: the cycle selector 'all' is rejected by main, which ends with
\* status 1 before any request is sent, any directory is created or anything
\* is processed; only an unset selector resolves to every cycle of the data.
C6_AllRejected ==
    /\ args.cycle = ALL =>
          /\ requests = <<>> /\ raw_zip = <<>> /\ dirs = {} /\ ~Loaded
          /\ pc \in ValidationStages \cup {"exit"}
          /\ pc = "exit" => exit_code = 1
    /\ (args.cycle = None /\ Loaded) =>
          Range(cycles) = DataCycles /\ Increasing(cycles)

\* C6 witness: a run with an otherwise valid command line and the selector
\* 'all' ended with status 1 at the cycle validation
C6_Witness ==
    /\ args.cycle = ALL
    /\ C4_DateValid /\ C4_HazardsValid /\ C4_FormatsValid
    /\ pc = "exit" /\ exit_code = 1
    /\ requests = <<>>

\* C7: a raw CYCLE value of -1 is mapped to 20 before the cycles are
\* computed: the returned cycle list, the per-cycle vector files and the
\* cycle directories never carry -1.
C7_SentinelRemapped ==
    /\ \A i \in 1..Len(cycles) : cycles[i] # -1
    /\ \A f \in vec_files : f.cycle # -1
    /\ OutputDir(args) \o "/cycle_-1z" \notin dirs

\* C8: the selectors '16z' and '1630z' leave main with the same cycle_filter,
\* and so select the same cycles on every table: cycle 1630 alone when the
\* data has it, every cycle otherwise.
C8_AliasSameCycle ==
    args.cycle \in {<<"1","6","z">>, <<"1","6","Z">>, <<"1","6","3","0","z">>}
    => /\ pc \notin ValidationStages => cycle_filter = <<"1","6","3","0","z">>
       /\ Loaded =>
             cycles = IF 1630 \in DataCycles THEN <<1630>>
                      ELSE Sorted(DataCycles)

\* C8 witness: '16z' on a table that has a cycle 16 and another cycle
C8_Witness ==
    /\ args.cycle = <<"1","6","z">>
    /\ Loaded /\ 16 \in DataCycles /\ Cardinality(DataCycles) = 2
    /\ Len(cycles) = 2
    /\ pc = "exit" /\ exit_code = 0

\* the run of the scenario: 2025-03-14, day 1, convective, hazard tornado,
\* format shp, no cycle selector
C9_Scenario ==
    /\ args.date = <<"2","0","2","5","-","0","3","-","1","4">>
    /\ args.day = 1 /\ args.type = "convective"
    /\ args.hazard = <<"tornado">> /\ args.format = <<"shp">>
    /\ args.cycle = None /\ ~args.quick

\* the tornado rows of one cycle of the loaded table
C9_Tornado(c) ==
    {r \in combined.rows : r.CATEGORY = <<"T","O","R","N","A","D","O">>
                           /\ (combined.hasCycle => r.CYCLE = c)}

C9_Path(c) ==
    "2025-03-14_day1_convective/cycle_" \o Fmt02d(c) \o "z/tornado_2025-03-14_"
        \o Fmt02d(c) \o "z.shp"

\* C9 as stated: at the end of the scenario run there is exactly one
\* non-empty shapefile, at cycle_<latest>z/tornado_2025-03-14_<latest>z.shp,
\* when the table has a tornado row, and no output file otherwise.
C9_OneFileAtLatest ==
    (C9_Scenario /\ pc = "exit" /\ Loaded) =>
        /\ png_files = {} /\ html_map = <<>>
        /\ IF \E c \in DataCycles : C9_Tornado(c) # {}
           THEN \E f \in vec_files :
                   /\ vec_files = {f}
                   /\ f.rows # {}
                   /\ f.path = C9_Path(Max(DataCycles))
           ELSE vec_files = {}

\* C9 amended: the scenario run writes exactly one non-empty shapefile for
\* every cycle of the data that has a tornado row, at
\* cycle_<NN>z/tornado_2025-03-14_<NN>z.shp for that cycle, holding that
\* cycle's tornado rows, and no other output file; without a tornado row it
\* writes no output file.
C9_OneFilePerTornadoCycle ==
    C9_Scenario =>
        /\ png_files = {} /\ html_map = <<>>
        /\ IF Loaded
           THEN vec_files =
                  {[path |-> C9_Path(c), cycle |-> c, hazard |-> "tornado",
                    ext |-> "shp", rows |-> C9_Tornado(c)] :
                      c \in {d \in DataCycles : C9_Tornado(d) # {}}}
           ELSE vec_files = {}

\* C9 witness: the scenario run ended with two tornado shapefiles, one for
\* each of two cycles, and a third cycle without one
C9_Witness ==
    /\ C9_Scenario /\ pc = "exit" /\ exit_code = 0
    /\ Cardinality(vec_files) = 2
    /\ Cardinality(DataCycles) > 2
    /\ \A f \in vec_files : f.rows # {} /\ f.path = C9_Path(f.cycle)

\* C10: when no hazard list is given, every exporter that ran iterated over
\* the default hazards of the outlook type: categorical, tornado, wind, hail
\* for convective and fire, dryt for fire.
C10_SameDefaultHazards ==
    args.hazard = None =>
        \A e \in {"vector", "plots", "map"} :
            used_hazards[e] \in
                {None,
                 IF args.type = "fire" THEN <<"fire", "dryt">>
                 ELSE <<"categorical", "tornado", "wind", "hail">>}


\* the place of a categorical threshold on the ladder
\* TSTM < MRGL < SLGT < ENH < MDT < HIGH
C11_Rank(t) ==
    CASE t = <<"T","S","T","M">> -> 1 [] t = <<"M","R","G","L">> -> 2 [] t = <<"S","L","G","T">> -> 3
      [] t = <<"E","N","H">> -> 4 [] t = <<"M","D","T">> -> 5 [] t = <<"H","I","G","H">> -> 6

\* C11: the thresholds of a categorical subset are drawn in the order of the
\* ladder TSTM < MRGL < SLGT < ENH < MDT < HIGH, in every panel of the raster
\* plot exporter and in the categorical layer of the interactive map.
C11_LadderOrder ==
    /\ \A f \in png_files :
          f.hazard = "categorical" =>
             \A i, j \in 1..Len(f.thresholds) :
                i < j => C11_Rank(f.thresholds[i]) < C11_Rank(f.thresholds[j])
    /\ html_map # <<>> =>
          \A k \in 1..Len(html_map[1].layers) :
             LET l == html_map[1].layers[k] IN
             l.hazard = "categorical" =>
                \A i, j \in 1..Len(l.order) :
                   i < j => C11_Rank(l.order[i].THRESHOLD)
                              <= C11_Rank(l.order[j].THRESHOLD)

\* the value of a probabilistic threshold in hundredths, SIGN above them all
C12_Value(t) ==
    CASE t = <<"0",".","0","2">> -> 2 [] t = <<"0",".","0","5">> -> 5 [] t = <<"0",".","1","0">> -> 10
      [] t = <<"0",".","1","5">> -> 15 [] t = <<"0",".","3","0">> -> 30 [] t = <<"0",".","4","5">> -> 45
      [] t = <<"0",".","6","0">> -> 60 [] t = <<"S","I","G","N">> -> 1000

C12_Probabilistic == {"tornado", "wind", "hail"}

\* C12: the thresholds of a tornado, wind or hail subset are drawn in
\* ascending numeric order with SIGN last, in every panel of the raster plot
\* exporter and in every such layer of the interactive map.
C12_NumericOrder ==
    /\ \A f \in png_files :
          f.hazard \in C12_Probabilistic =>
             \A i, j \in 1..Len(f.thresholds) :
                i < j => C12_Value(f.thresholds[i]) < C12_Value(f.thresholds[j])
    /\ html_map # <<>> =>
          \A k \in 1..Len(html_map[1].layers) :
             LET l == html_map[1].layers[k] IN
             l.hazard \in C12_Probabilistic =>
                \A i, j \in 1..Len(l.order) :
                   i < j => C12_Value(l.order[i].THRESHOLD)
                              <= C12_Value(l.order[j].THRESHOLD)

\* C12 witness: the thresholds 0.45, 0.05, SIGN, 0.30 of a tornado subset were
\* drawn as 0.05, 0.30, 0.45, SIGN in the panel and in the map layer
C12_Witness ==
    /\ pc = "exit" /\ exit_code = 0
    /\ \E f \in png_files :
          /\ f.hazard = "tornado"
          /\ f.thresholds = <<<<"0",".","0","5">>, <<"0",".","3","0">>, <<"0",".","4","5">>, <<"S","I","G","N">>>>
    /\ html_map # <<>>
    /\ \E k \in 1..Len(html_map[1].layers) :
          LET l == html_map[1].layers[k] IN
          /\ l.hazard = "tornado"
          /\ [i \in 1..Len(l.order) |-> l.order[i].THRESHOLD]
                = <<<<"0",".","0","5">>, <<"0",".","3","0">>, <<"0",".","4","5">>, <<"S","I","G","N">>>>


\* the subset of a hazard name as section 4.3 of the specification defines it
SpecSubset(hazard, rows) ==
    CASE hazard = "categorical" -> {r \in rows : r.CATEGORY = CATEGORICAL}
      [] hazard = "tornado" -> {r \in rows : r.CATEGORY = TORNADO}
      [] hazard = "wind" -> {r \in rows : r.CATEGORY = WIND}
      [] hazard = "hail" -> {r \in rows : r.CATEGORY = HAIL}
      [] hazard = "fire" -> {r \in rows : Contains(r.CATEGORY, FIRE)}
      [] hazard = "dryt" -> {r \in rows : Contains(r.CATEGORY, DRY)}
      [] hazard = "tstm" -> {r \in rows : r.CATEGORY = CATEGORICAL
                                          /\ r.THRESHOLD = TSTM}

\* the hazards requested of the vector and plot exporters
Requested ==
    IF hazard_types = None THEN DefaultHazards(args.type) ELSE hazard_types

\* the vector formats requested
VectorFormats ==
    IF output_formats = None THEN {"shp", "geojson"}
    ELSE Range(output_formats) \cap {"shp", "geojson"}

\* process_shapefiles_selective has returned
VectorDone ==
    /\ used_hazards.vector # None
    /\ pc \in {"plots", "html", "complete"} \/ (pc = "exit" /\ exit_code = 0)

\* create_plots_selective has returned
PlotsDone ==
    /\ used_hazards.plots # None
    /\ pc \in {"html", "complete"} \/ (pc = "exit" /\ exit_code = 0)

\* C13: for every processed cycle and requested hazard the plot exporter
\* saves exactly one PNG panel, a placeholder when the subset is empty, and
\* the vector exporter writes the file of a requested vector format for that
\* pair if and only if the subset is not empty.
C13_PanelsAndFiles ==
    /\ PlotsDone =>
          /\ \A c \in Range(cycles), h \in Range(Requested) :
                LET panels == {f \in png_files : f.cycle = c /\ f.hazard = h}
                IN /\ Cardinality(panels) = 1
                   /\ SpecSubset(h, CycleData(combined, c)) = {} =>
                         \A f \in panels : f.rows = {} /\ f.thresholds = <<>>
          /\ \A f \in png_files :
                f.cycle \in Range(cycles) /\ f.hazard \in Range(Requested)
    /\ VectorDone =>
          \A c \in Range(cycles), h \in Range(Requested), e \in VectorFormats :
             (\E f \in vec_files : f.cycle = c /\ f.hazard = h /\ f.ext = e)
                <=> SpecSubset(h, CycleData(combined, c)) # {}

\* C13 witness: a finished run with a placeholder panel for a pair that has
\* no vector file, and a panel and a vector file for a pair with data
C13_Witness ==
    /\ pc = "exit" /\ exit_code = 0 /\ PlotsDone /\ VectorDone
    /\ \E c \in Range(cycles), h, g \in Range(Requested) :
          /\ SpecSubset(h, CycleData(combined, c)) = {}
          /\ \E f \in png_files : f.cycle = c /\ f.hazard = h /\ f.rows = {}
          /\ ~\E f \in vec_files : f.cycle = c /\ f.hazard = h
          /\ SpecSubset(g, CycleData(combined, c)) # {}
          /\ \E f \in png_files : f.cycle = c /\ f.hazard = g /\ f.rows # {}
          /\ \E f \in vec_files : f.cycle = c /\ f.hazard = g


FourExact == {"categorical", "tornado", "wind", "hail"}

\* C14: in every cycle of a loaded table a feature is in at most one of the
\* subsets categorical, tornado, wind, hail, and a feature of one of those
\* four is in neither the fire nor the dryt subset.
C14_Partition ==
    VectorDone =>
       \A c \in Range(cycles) :
          LET data == CycleData(combined, c) IN
          \A r \in data :
             /\ Cardinality({h \in FourExact : r \in Hazards(h, data)}) <= 1
             /\ (\E h \in FourExact : r \in Hazards(h, data)) =>
                   /\ r \notin Hazards("fire", data)
                   /\ r \notin Hazards("dryt", data)

\* C14 witness: one feature was written to both the fire and the dryt file of
\* a cycle whose table also holds a tornado feature that is in neither
C14_Witness ==
    /\ VectorDone
    /\ \E f, g \in vec_files :
          /\ f.hazard = "fire" /\ g.hazard = "dryt"
          /\ f.cycle = g.cycle /\ f.ext = g.ext
          /\ f.rows \cap g.rows # {}
          /\ \E r \in Hazards("tornado", CycleData(combined, f.cycle)) :
                r \notin f.rows /\ r \notin g.rows

\* a cycle directory of the run
CycleDirs == {CycleDir(OutputDir(args), c) : c \in 0..99}

\* a step of extraction, partitioning or export
C15_Processing ==
    \/ combined' # combined
    \/ cycles' # cycles
    \/ used_hazards' # used_hazards
    \/ vec_files' # vec_files
    \/ png_files' # png_files
    \/ html_map' # html_map
    \/ pc \in {"fetched", "plots", "html", "complete"}

\* C15: every step of extraction, partitioning or export finds the raw
\* archive already written with the body of the accepted response and leaves
\* it as it is, and a quick run that wrote the archive never enters
\* processing and ends with status 0 with no cycle directory, vector file,
\* plot or map.
C15_ArchiveFirst ==
    /\ [][C15_Processing =>
             /\ raw_zip # <<>>
             /\ raw_zip' = raw_zip
             /\ requests # <<>>
             /\ LET r == requests[Len(requests)].resp IN
                ~r.exc /\ raw_zip[1] = [empty |-> r.empty,
                                         archive |-> r.archive]]_vars
    /\ [](args.quick /\ raw_zip # <<>> =>
             /\ pc \in {"fetched", "exit"}
             /\ pc = "exit" => exit_code = 0
             /\ dirs \cap CycleDirs = {}
             /\ used_hazards = NoExporter
             /\ vec_files = {} /\ png_files = {} /\ html_map = <<>>)

\* C15 witness: a quick run has ended with status 0 after writing the archive
C15_Witness ==
    /\ args.quick /\ pc = "exit" /\ exit_code = 0
    /\ raw_zip # <<>> /\ ~raw_zip[1].empty
    /\ dirs = {OutputDir(args)}
    /\ vec_files = {} /\ png_files = {} /\ html_map = <<>>

\* C19: the cycles plotted are the cycles the vector exporter resolved, every
\* vector file is of one of them, and the display cycle of the map is their
\* maximum, which is the requested cycle when a specific cycle was requested
\* and is in the data.
C19_SameCycles ==
    /\ PlotsDone => {f.cycle : f \in png_files} = Range(cycles)
    /\ VectorDone => {f.cycle : f \in vec_files} \subseteq Range(cycles)
    /\ html_map # <<>> =>
          /\ Range(cycles) # {}
          /\ html_map[1].display_cycle = Max(Range(cycles))
          /\ \A i \in 1..Len(html_map[1].layers) :
                \A r \in html_map[1].layers[i].rows :
                   combined.hasCycle => r.CYCLE = Max(Range(cycles))
          /\ (cycle_filter # None /\ cycle_filter # LATEST
                /\ C5_TokenCycle(cycle_filter) \in DataCycles) =>
                html_map[1].display_cycle = C5_TokenCycle(cycle_filter)

\* C19 witness: a finished run over several cycles, all of them plotted and
\* exported, with the map on the last of them
C19_Witness ==
    /\ pc = "exit" /\ exit_code = 0
    /\ Len(cycles) >= 2
    /\ {f.cycle : f \in png_files} = Range(cycles)
    /\ {f.cycle : f \in vec_files} = Range(cycles)
    /\ html_map # <<>>
    /\ html_map[1].display_cycle = cycles[Len(cycles)]
    /\ html_map[1].display_cycle # cycles[1]

\* C20: the vector exporter, the plot exporter and the map exporter select
\* for a hazard and cycle the same subset of features, the subset of the
\* hazard name; for dryt the features whose category contains DRY.
C20_SameSubsets ==
    /\ VectorDone =>
          \A f \in vec_files :
             f.rows = SpecSubset(f.hazard, CycleData(combined, f.cycle))
    /\ PlotsDone =>
          \A f \in png_files :
             f.rows = SpecSubset(f.hazard, CycleData(combined, f.cycle))
    /\ html_map # <<>> =>
          \A i \in 1..Len(html_map[1].layers) :
             html_map[1].layers[i].rows =
                SpecSubset(html_map[1].layers[i].hazard,
                           CycleData(combined, html_map[1].display_cycle))


\* the feature has the office, phenomena and significance asked for
C16_Matches(f) ==
    /\ w_args.wfo # None => f.wfo = Upper(w_args.wfo)
    /\ w_args.phenomena # None => f.phenomena = Upper(w_args.phenomena)
    /\ w_args.significance # None =>
          f.significance = Upper(w_args.significance)

\* C16: fetch_current_warnings returns exactly the features of the retrieved
\* collection whose office, phenomena and significance equal the uppercased
\* filter values, in their order, and count is their number.
C16_ExactFilter ==
    w_data # <<>> =>
       /\ w_data[1].features = SelectSeq(w_response.features, C16_Matches)
       /\ w_data[1].count = Len(w_data[1].features)

\* the request failed in transport or was answered with a non-2xx status
C17_Failure ==
    w_response.exc \/ w_response.status < 200 \/ w_response.status > 299

\* C17: a run sends exactly one request; when it has ended after a transport
\* failure or a non-2xx response its status is 1 and no file is written, and
\* in every other case its status is 0.
C17_OneRequestExitStatus ==
    /\ Len(w_requests) <= 1
    /\ w_pc = "exit" =>
          /\ Len(w_requests) = 1
          /\ C17_Failure => w_exit_code = 1 /\ w_files = {}
          /\ ~C17_Failure => w_exit_code = 0

\* C18: no shapefile written by either tool holds an invalid geometry.
C18_ShapefilesRepaired ==
    /\ \A f \in w_files :
          f.ext = "shp" =>
             \A i \in 1..Len(f.features) : f.features[i].geometry # "invalid"
    /\ \A f \in vec_files :
          f.ext = "shp" => \A r \in f.rows : r.geometry # "invalid"


\* the selectors that name the 1630Z run
C21_Selectors == {<<"1","6","z">>, <<"1","6","3","0","z">>}

\* C21: when the table holds the 1630Z run as CYCLE 16, a request for cycle
\* 16z or 1630z processes exactly that cycle.
C21_OnlyThe1630Run ==
    (/\ VectorDone
     /\ args.cycle # None
     /\ Lower(args.cycle) \in C21_Selectors
     /\ combined.hasCycle
     /\ 16 \in {r.CYCLE : r \in combined.rows}) =>
        cycles = <<16>>

\* C22: when process_shapefiles_selective has returned, every cycle directory
\* that exists holds a shapefile or GeoJSON file.
C22_NoEmptyCycleDir ==
    (pc = "plots" /\ VectorDone) =>
       \A c \in 0..99 :
          CycleDir(OutputDir(args), c) \in dirs =>
             \E f \in vec_files :
                f.cycle = c /\ f.ext \in {"shp", "geojson"}

====
